---- MODULE Spec2Model ----
(***************************************************************************)
(* Model of the two bulk pipelines of tracer-tools-extensions:             *)
(*   fast_validate_ids.py  (pipeline "validate")                           *)
(*   fast_get_coords.py    (pipeline "coords")                             *)
(* Both parse an ID file, fan out one remote lookup per ID over a thread   *)
(* pool (Stage A), resolve the collected leaves in batches (Stage B) and   *)
(* assemble a report in input order (Stage C).                             *)
(*                                                                         *)
(* Text is modelled as sequences of one-character tokens; the token        *)
(* "u2192" stands for the character U+2192 (rightwards arrow).             *)
(***************************************************************************)
EXTENDS Integers, Sequences, FiniteSets, TLC

\* ------------------------------------------------------------------ bounds
\* Longest input file (in lines) of the pipeline specification.
MaxLines == 3
\* Longest raw line and longest file of the parser specification.
MaxLineLen == 3
MaxParseLines == 2
\* chunk_size is 100 in fast_get_coords.py and 5000 in fast_validate_ids.py.
\* The chunking code is parametric in it; the model runs it scaled down so
\* that a run with MaxLines IDs has more than one chunk.
CoordsChunk == 2
RootsChunk == 2
\* Most binary digits of a nanometre coordinate of the conversion
\* specification.
MaxRawBits == 54

\* ------------------------------------------------------------------ text
Digits == {"0", "1", "2", "3", "4", "5", "6", "7", "8", "9"}
Space == " "
Hash == "#"
Arrow == "u2192"

DigitVal(c) ==
    CASE c = "0" -> 0 [] c = "1" -> 1 [] c = "2" -> 2 [] c = "3" -> 3
      [] c = "4" -> 4 [] c = "5" -> 5 [] c = "6" -> 6 [] c = "7" -> 7
      [] c = "8" -> 8 [] c = "9" -> 9

DigitChar(d) ==
    CASE d = 0 -> "0" [] d = 1 -> "1" [] d = 2 -> "2" [] d = 3 -> "3"
      [] d = 4 -> "4" [] d = 5 -> "5" [] d = 6 -> "6" [] d = 7 -> "7"
      [] d = 8 -> "8" [] d = 9 -> "9"

\* int(s) for a string of ASCII digits.
RECURSIVE int(_)
int(s) ==
    IF s = <<>> THEN 0
    ELSE 10 * int(SubSeq(s, 1, Len(s) - 1)) + DigitVal(s[Len(s)])

\* str(n) for a natural number: decimal, no leading zeros.
RECURSIVE str(_)
str(n) ==
    IF n < 10 THEN <<DigitChar(n)>>
    ELSE Append(str(n \div 10), DigitChar(n % 10))

\* str.strip(): leading and trailing whitespace removed.
strip(s) ==
    LET keep == {i \in 1..Len(s) : s[i] # Space}
    IN  IF keep = {} THEN <<>>
        ELSE LET lo == CHOOSE i \in keep : \A j \in keep : i <= j
                 hi == CHOOSE i \in keep : \A j \in keep : j <= i
             IN  SubSeq(s, lo, hi)

\* str.isdigit(): non-empty and every character a digit.
isdigit(s) == Len(s) > 0 /\ \A i \in 1..Len(s) : s[i] \in Digits

\* Positions at which sep occurs in s.
Occurrences(s, sep) ==
    {i \in 1..(Len(s) - Len(sep) + 1) : SubSeq(s, i, i + Len(sep) - 1) = sep}

\* `sep in s`
contains(s, sep) == Occurrences(s, sep) # {}

\* s.split(sep)[-1]: the text after the last occurrence of sep (s if none).
split_last(s, sep) ==
    LET occ == Occurrences(s, sep)
    IN  IF occ = {} THEN s
        ELSE LET last == CHOOSE i \in occ : \A j \in occ : j <= i
             IN  SubSeq(s, last + Len(sep), Len(s))

startswith(s, c) == Len(s) > 0 /\ s[1] = c

\* One iteration of the loop of parse_id_file of fast_get_coords.py:
\* the IDs (none or one) the raw line appends.
parse_line_coords(raw) ==
    LET line == strip(raw)
    IN  IF line = <<>> \/ startswith(line, Hash) THEN <<>>
        ELSE IF contains(line, <<Arrow>>) THEN
            LET id_part == strip(split_last(line, <<Arrow>>))
            IN  IF id_part # <<>> /\ isdigit(id_part) THEN <<id_part>> ELSE <<>>
        ELSE IF contains(line, <<"-", ">">>) THEN
            LET id_part == strip(split_last(line, <<"-", ">">>))
            IN  IF id_part # <<>> /\ isdigit(id_part) THEN <<id_part>> ELSE <<>>
        ELSE IF isdigit(line) THEN <<line>>
        ELSE <<>>

\* One iteration of the loop of parse_id_file of fast_validate_ids.py.
parse_line_validate(raw) ==
    LET line == strip(raw)
    IN  IF line = <<>> THEN <<>>
        ELSE IF contains(line, <<Arrow>>) THEN
            LET id_part == strip(split_last(line, <<Arrow>>))
            IN  IF id_part # <<>> /\ isdigit(id_part) THEN <<id_part>> ELSE <<>>
        ELSE IF isdigit(line) THEN <<line>>
        ELSE <<>>

parse_line(p, raw) ==
    IF p = "coords" THEN parse_line_coords(raw) ELSE parse_line_validate(raw)

\* parse_id_file of pipeline p on a file given as its sequence of lines.
RECURSIVE parse_id_file(_, _)
parse_id_file(p, file) ==
    IF file = <<>> THEN <<>>
    ELSE parse_id_file(p, SubSeq(file, 1, Len(file) - 1))
            \o parse_line(p, file[Len(file)])

\* ------------------------------------------------------------- dictionaries
\* A Python dict, in insertion order: a sequence of <<key, value>> pairs with
\* distinct keys.
Keys(d) == {d[i][1] : i \in 1..Len(d)}

\* `k in d`
Has(d, k) == \E i \in 1..Len(d) : d[i][1] = k

\* d[k], for a key of d
Get(d, k) == d[CHOOSE i \in 1..Len(d) : d[i][1] = k][2]

\* d[k] = v: a new key goes last, an old key keeps its place.
Put(d, k, v) ==
    IF Has(d, k)
    THEN [i \in 1..Len(d) |-> IF d[i][1] = k THEN <<k, v>> ELSE d[i]]
    ELSE Append(d, <<k, v>>)

\* list(d.values())
Values(d) == [i \in 1..Len(d) |-> d[i][2]]

\* d.update(e)
RECURSIVE Update(_, _)
Update(d, e) ==
    IF e = <<>> THEN d
    ELSE Update(Put(d, e[1][1], e[1][2]), Tail(e))

\* for k, v in zip(ks, vs): d[k] = v
RECURSIVE PutZip(_, _, _)
PutZip(d, ks, vs) ==
    IF ks = <<>> \/ vs = <<>> THEN d
    ELSE PutZip(Put(d, Head(ks), Head(vs)), Tail(ks), Tail(vs))

Min(a, b) == IF a <= b THEN a ELSE b

\* ---------------------------------------------------------- remote service
\* The remote service is outside the repository: the model gives it every
\* answer its interface allows.  A service record is either nondeterministic
\* (det = FALSE: each call may answer differently) or a deterministic stub
\* (det = TRUE: every answer is a function of the call's arguments).
Leaves == {11, 12, 13}
\* The leaves a nondeterministic service answers with.
AnyLeaves == {11, 12}
Roots == {1, 2}
DefaultWorkers == 20
WorkerCounts == {1, DefaultWorkers}
Pipelines == {"validate", "coords"}

\* The stub: get_leaves(n) faults for n in bad and returns [10 + n] otherwise;
\* a batch request faults when it holds a leaf of poison; the root of leaf l
\* is l - 10.
AtMostOne(S) == {{}} \cup {{x} : x \in S}
Services ==
    {[det |-> FALSE, bad |-> {}, poison |-> {}]}
        \cup {[det |-> TRUE, bad |-> b, poison |-> q] :
                b \in AtMostOne({2}), q \in AtMostOne({11, 12})}

Fault == [ok |-> FALSE, ids |-> <<>>]

\* The answers of client.chunkedgraph.get_leaves(n): a list of leaves (the
\* model keeps its first element, the only one the callers read) or a fault.
LeafResponses(svc, n) ==
    IF svc.det
    THEN IF n \in svc.bad THEN {Fault} ELSE {[ok |-> TRUE, ids |-> <<10 + n>>]}
    ELSE {[ok |-> TRUE, ids |-> <<l>>] : l \in AnyLeaves}
            \cup {[ok |-> TRUE, ids |-> <<>>], Fault}

Range(s) == {s[i] : i \in 1..Len(s)}

\* The answers of client.chunkedgraph.get_roots(chunk): one root per leaf,
\* in the order of the request (or one short), or a fault.
RootResponses(svc, chunk) ==
    IF svc.det
    THEN IF Range(chunk) \cap svc.poison # {} THEN {Fault}
         ELSE {[ok |-> TRUE, ids |-> [i \in 1..Len(chunk) |-> chunk[i] - 10]]}
    ELSE {[ok |-> TRUE, ids |-> r] :
            r \in [1..Len(chunk) -> Roots] \cup [1..(Len(chunk) - 1) -> Roots]}
            \cup {Fault}

\* The cached coordinate of a leaf, in nanometres, and the viewer resolution
\* of the datastack.
rep_coord_nm(l) == <<400 * (l - 10) - 1, 0 - 7 * (l - 10), 1600>>
viewer_res == <<4, 4, 40>>

\* The sorted list of a finite set of integers.
RECURSIVE SortedSeq(_)
SortedSeq(S) ==
    IF S = {} THEN <<>>
    ELSE LET m == CHOOSE x \in S : \A y \in S : x <= y
         IN  <<m>> \o SortedSeq(S \ {m})

\* The dict a choice f (per leaf: absent, present without the attribute, or
\* present with it) stands for; its keys are the leaves as text.
RECURSIVE L2Dict(_, _)
L2Dict(ls, f) ==
    IF ls = <<>> THEN <<>>
    ELSE LET l == Head(ls)
             rest == L2Dict(Tail(ls), f)
         IN  CASE f[l] = "absent" -> rest
               [] f[l] = "noattr" -> <<<<str(l), <<>>>>>> \o rest
               [] f[l] = "coord" -> <<<<str(l), <<rep_coord_nm(l)>>>>>> \o rest

\* The answers of client.l2cache.get_l2data(chunk, attributes=["rep_coord_nm"]):
\* a dict over some of the requested leaves, or a fault.
L2Responses(svc, chunk) ==
    IF svc.det
    THEN IF Range(chunk) \cap svc.poison # {} THEN {[ok |-> FALSE, data |-> <<>>]}
         ELSE {[ok |-> TRUE,
                data |-> L2Dict(SortedSeq(Range(chunk)),
                                [l \in Range(chunk) |-> "coord"])]}
    ELSE {[ok |-> TRUE, data |-> L2Dict(SortedSeq(Range(chunk)), f)] :
            f \in [Range(chunk) -> {"absent", "noattr", "coord"}]}
            \cup {[ok |-> FALSE, data |-> <<>>]}

\* ------------------------------------------------------------ Stage A worker
NoLeafMsg(p) ==
    IF p = "coords" THEN "No L2 chunks found" ELSE "No supervoxels found"
FaultMsg == "fault"

\* get_one_l2 / get_one_supervoxel on the answer resp of the remote call: the
\* tuple (root_id, leaf or None, err or None); None is the empty sequence.
get_one(p, root_id, resp) ==
    IF resp.ok
    THEN IF Len(resp.ids) > 0
         THEN [root_id |-> root_id, leaf |-> <<resp.ids[1]>>, err |-> <<>>]
         ELSE [root_id |-> root_id, leaf |-> <<>>, err |-> <<NoLeafMsg(p)>>]
    ELSE [root_id |-> root_id, leaf |-> <<>>, err |-> <<FaultMsg>>]

chunk_size(p) == IF p = "coords" THEN CoordsChunk ELSE RootsChunk

\* ------------------------------------------------------------------ Stage C
\* Python's int is of any size: the magnitude of an integer is held as its
\* binary digits, most significant first and without leading zeros.  Each
\* operator takes the value of its operand once (The, AsTuple) and works on
\* that.
MantissaBits == 53

The(S) == CHOOSE x \in S : TRUE
AsTuple(s) == s \o <<>>

Zeros(n) == [i \in 1..n |-> 0]

ToBits(n) ==
    LET Digits2[k \in 0..n] ==
            IF k = 0 THEN <<>> ELSE Digits2[k \div 2] \o <<k % 2>>
    IN  Digits2[n]

FromBits(bits) ==
    The({LET Value[k \in 0..Len(bv)] ==
                 IF k = 0 THEN 0 ELSE 2 * Value[k - 1] + bv[k]
         IN  Value[Len(bv)] : bv \in {AsTuple(bits)}})

\* bits without its leading zeros.
Normalize(bits) ==
    The({IF \A i \in 1..Len(bv) : bv[i] = 0 THEN <<>>
         ELSE LET k == CHOOSE i \in 1..Len(bv) :
                         bv[i] = 1 /\ \A j \in 1..(i - 1) : bv[j] = 0
              IN  SubSeq(bv, k, Len(bv)) : bv \in {AsTuple(bits)}})

\* bits + 1, on a fixed number of digits (one more on a carry out).
Inc(bits) ==
    The({IF \A i \in 1..Len(bv) : bv[i] = 1 THEN <<1>> \o Zeros(Len(bv))
         ELSE LET k == CHOOSE i \in 1..Len(bv) :
                         bv[i] = 0 /\ \A j \in (i + 1)..Len(bv) : bv[j] = 1
              IN  AsTuple([i \in 1..Len(bv) |->
                              IF i < k THEN bv[i] ELSE IF i = k THEN 1 ELSE 0])
         : bv \in {AsTuple(bits)}})

\* Schoolbook division of (r, bits) by b: one quotient digit per digit, the
\* remainder carried from left to right (through the left half of the
\* digits, then the right half).
RECURSIVE LongDiv(_, _, _)
LongDiv(bits, b, r) ==
    The({IF Len(bv) = 0 THEN [q |-> <<>>, r |-> r]
         ELSE IF Len(bv) = 1
         THEN [q |-> <<IF 2 * r + bv[1] >= b THEN 1 ELSE 0>>,
               r |-> (2 * r + bv[1]) % b]
         ELSE The({The({[q |-> hi.q \o lo.q, r |-> lo.r]
                        : lo \in {LongDiv(SubSeq(bv, Len(bv) \div 2 + 1, Len(bv)),
                                          b, hi.r)}})
                   : hi \in {LongDiv(SubSeq(bv, 1, Len(bv) \div 2), b, r)}})
         : bv \in {AsTuple(bits)}})

\* The zero digits after the binary point of r / b before its first one,
\* for 0 < r < b.
RECURSIVE LeadZeros(_, _)
LeadZeros(r, b) == IF 2 * r >= b THEN 0 ELSE 1 + LeadZeros(2 * r, b)

\* A quotient of more than MantissaBits digits qi with remainder r, rounded
\* to MantissaBits digits (ties to even); the digits dropped become zeros.
RoundInteger(qi, r) ==
    LET n == Len(qi)
        kept == SubSeq(qi, 1, MantissaBits)
        sticky == r # 0 \/ \E j \in (MantissaBits + 2)..n : qi[j] = 1
        up == qi[MantissaBits + 1] = 1 /\ (sticky \/ qi[MantissaBits] = 1)
    IN  [bits |-> (IF up THEN Inc(kept) ELSE kept) \o Zeros(n - MantissaBits),
         frac |-> 0]

\* A quotient of at most MantissaBits digits qi with remainder r of the
\* division by b: the digits after the point are worked out up to
\* MantissaBits significant digits and one more, and rounded (ties to even).
RoundFraction(qi, r, b) ==
    LET n == Len(qi)
        F == MantissaBits - n + (IF n = 0 THEN LeadZeros(r, b) ELSE 0)
    IN  The({LET kept == qi \o SubSeq(fd.q, 1, F)
                 up == fd.q[F + 1] = 1 /\ (fd.r # 0 \/ kept[Len(kept)] = 1)
             IN  [bits |-> IF up THEN Inc(kept) ELSE kept, frac |-> F]
             : fd \in {LongDiv(Zeros(F + 1), b, r)}})

\* a / b of two ints, a >= 0 < b: the float nearest to the quotient (ties to
\* even), i.e. the quotient rounded to MantissaBits significant digits.  The
\* float is bits / 2^frac.
float_quotient(a, b) ==
    The({The({IF Len(qi) > MantissaBits THEN RoundInteger(qi, dv.r)
              ELSE IF qi = <<>> /\ dv.r = 0 THEN [bits |-> <<>>, frac |-> 0]
              ELSE RoundFraction(qi, dv.r, b) : qi \in {Normalize(dv.q)}})
         : dv \in {LongDiv(a, b, 0)}})

\* int(f) of a float f >= 0: its digits before the point.
int_of_float(f) ==
    The({Normalize(SubSeq(fv.bits, 1, Len(fv.bits) - fv.frac)) : fv \in {f}})

\* int(a / b) for an int a given by sign and magnitude and an int b > 0:
\* float division is symmetric in the sign and int() drops the fraction.
int_truediv(a, b) ==
    The({[neg |-> a.neg /\ qv # <<>>, mag |-> qv]
         : qv \in {int_of_float(float_quotient(a.mag, b))}})

\* int(a / b) for b > 0, on numbers small enough to be written directly.
int_truediv_small(a, b) ==
    The({IF qv.neg THEN 0 - FromBits(qv.mag) ELSE FromBits(qv.mag)
         : qv \in {int_truediv([neg |-> a < 0,
                                mag |-> ToBits(IF a < 0 THEN 0 - a ELSE a)], b)}})

\* The same, with the quotients of the coordinates the service holds worked
\* out once.
ServiceQuotients ==
    [nm \in UNION {Range(rep_coord_nm(l)) : l \in Leaves}, res \in Range(viewer_res)
        |-> int_truediv_small(nm, res)]

trunc_div(a, b) ==
    IF <<a, b>> \in DOMAIN ServiceQuotients THEN ServiceQuotients[a, b]
    ELSE int_truediv_small(a, b)

\* f"{n}" for an integer.
fmt(n) == IF n < 0 THEN <<"-">> \o str(0 - n) ELSE str(n)

ERROR == <<"ERROR">>
NA == <<"N/A">>

\* A variant of the output loop that looks the leaf up before the error set.
coords_row_leaf_first(root_id, errs, id_to_l2, l2_data) ==
    IF Has(id_to_l2, root_id)
    THEN LET l2_key == str(Get(id_to_l2, root_id))
         IN  IF Has(l2_data, l2_key) /\ Get(l2_data, l2_key) # <<>>
             THEN LET rep_coord == Get(l2_data, l2_key)[1]
                  IN  [id |-> root_id,
                       cells |-> <<fmt(trunc_div(rep_coord[1], viewer_res[1])),
                                   fmt(trunc_div(rep_coord[2], viewer_res[2])),
                                   fmt(trunc_div(rep_coord[3], viewer_res[3]))>>]
             ELSE [id |-> root_id, cells |-> <<NA, NA, NA>>]
    ELSE IF Has(errs, root_id)
    THEN [id |-> root_id, cells |-> <<ERROR, ERROR, ERROR>>]
    ELSE [id |-> root_id, cells |-> <<NA, NA, NA>>]

\* One iteration of the output loop of fast_get_coords.py: the row appended
\* for root_id, as its ID and its three cells.
coords_row(root_id, errs, id_to_l2, l2_data) ==
    IF Has(errs, root_id)
    THEN [id |-> root_id, cells |-> <<ERROR, ERROR, ERROR>>]
    ELSE IF Has(id_to_l2, root_id)
    THEN LET l2_key == str(Get(id_to_l2, root_id))
         IN  IF Has(l2_data, l2_key) /\ Get(l2_data, l2_key) # <<>>
             THEN LET rep_coord == Get(l2_data, l2_key)[1]
                  IN  [id |-> root_id,
                       cells |-> <<fmt(trunc_div(rep_coord[1], viewer_res[1])),
                                   fmt(trunc_div(rep_coord[2], viewer_res[2])),
                                   fmt(trunc_div(rep_coord[3], viewer_res[3]))>>]
             ELSE [id |-> root_id, cells |-> <<NA, NA, NA>>]
    ELSE [id |-> root_id, cells |-> <<NA, NA, NA>>]

\* A variant of the result loop that compares the IDs as numbers.
validate_entry_numeric(old_id, errs, id_to_sv, sv_to_root) ==
    IF Has(errs, old_id)
    THEN [line |-> [kind |-> "error", id |-> old_id, val |-> <<Get(errs, old_id)>>],
          upd |-> old_id]
    ELSE IF Has(id_to_sv, old_id) /\ Has(sv_to_root, Get(id_to_sv, old_id))
    THEN LET new_id == str(Get(sv_to_root, Get(id_to_sv, old_id)))
         IN  IF int(new_id) # int(old_id)
             THEN [line |-> [kind |-> "changed", id |-> old_id, val |-> new_id],
                   upd |-> new_id]
             ELSE [line |-> [kind |-> "ok", id |-> old_id, val |-> <<>>],
                   upd |-> old_id]
    ELSE [line |-> [kind |-> "error", id |-> old_id, val |-> <<"lookup failed">>],
          upd |-> old_id]

\* A variant of the result loop that appends the old ID to updated_ids in
\* every branch.
validate_entry_keep_old(old_id, errs, id_to_sv, sv_to_root) ==
    IF Has(errs, old_id)
    THEN [line |-> [kind |-> "error", id |-> old_id, val |-> <<Get(errs, old_id)>>],
          upd |-> old_id]
    ELSE IF Has(id_to_sv, old_id) /\ Has(sv_to_root, Get(id_to_sv, old_id))
    THEN LET new_id == str(Get(sv_to_root, Get(id_to_sv, old_id)))
         IN  IF new_id # old_id
             THEN [line |-> [kind |-> "changed", id |-> old_id, val |-> new_id],
                   upd |-> old_id]
             ELSE [line |-> [kind |-> "ok", id |-> old_id, val |-> <<>>],
                   upd |-> old_id]
    ELSE [line |-> [kind |-> "error", id |-> old_id, val |-> <<"lookup failed">>],
          upd |-> old_id]

\* One iteration of the result loop of fast_validate_ids.py: the line appended
\* for old_id (kind "error": # ERROR: id - val; "changed": id -> val;
\* "ok": id [OK - Current]) and the entry appended to updated_ids.
validate_entry(old_id, errs, id_to_sv, sv_to_root) ==
    IF Has(errs, old_id)
    THEN [line |-> [kind |-> "error", id |-> old_id, val |-> <<Get(errs, old_id)>>],
          upd |-> old_id]
    ELSE IF Has(id_to_sv, old_id) /\ Has(sv_to_root, Get(id_to_sv, old_id))
    THEN LET new_id == str(Get(sv_to_root, Get(id_to_sv, old_id)))
         IN  IF new_id # old_id
             THEN [line |-> [kind |-> "changed", id |-> old_id, val |-> new_id],
                   upd |-> new_id]
             ELSE [line |-> [kind |-> "ok", id |-> old_id, val |-> <<>>],
                   upd |-> old_id]
    ELSE [line |-> [kind |-> "error", id |-> old_id, val |-> <<"lookup failed">>],
          upd |-> old_id]

IsCoords(row) == row.cells[1] # ERROR /\ row.cells[1] # NA

\* success_count and fail_count after the output loop over rows.
success_count(rows) == Cardinality({i \in 1..Len(rows) : IsCoords(rows[i])})
fail_count(rows) == Cardinality({i \in 1..Len(rows) : ~IsCoords(rows[i])})

\* changed_count, unchanged_count and error_count after the result loop.
kind_count(entries, k) ==
    Cardinality({i \in 1..Len(entries) : entries[i].line.kind = k})

\* ------------------------------------------------------------------- state
VARIABLES
    pipeline,       \* which script runs
    workers,        \* args.workers
    file,           \* the lines of args.input
    service,        \* the remote service behind the client
    pc,             \* where main is
    client,         \* whether CAVEclient(...) has been created
    all_ids,        \* all_ids
    futures,        \* per submitted task: its state and, between the worker's
                    \* return and future.result(), its result
    id_to_leaf,     \* id_to_l2 / id_to_sv
    errors,         \* errors
    completed,      \* completed
    leaf_list,      \* all_l2_ids / sv_list
    next_i,         \* the loop variable i of the batch loop
    requests,       \* the batch requests sent so far, each with whether it
                    \* was answered (ok) or faulted
    leaf_data,      \* l2_data / sv_to_root
    lines,          \* lines (without the header line)
    updated_ids,    \* updated_ids
    counts,         \* the counters of the output loop
    output,         \* the files written: their names and contents
    conversion      \* rep_coord, viewer_res and x, y, z of one conversion
                    \* taken on its own (the conversion specification)

vars == <<pipeline, workers, file, service, pc, client, all_ids, futures,
          id_to_leaf, errors, completed, leaf_list, next_i, requests,
          leaf_data, lines, updated_ids, counts, output, conversion>>

NoResult == [root_id |-> <<>>, leaf |-> <<>>, err |-> <<>>]

\* The raw lines the pipeline specification draws its files from.
RawLines == {<<"1">>, <<"0", "2">>, <<"1", Arrow, "3">>, <<Hash, "1">>}
Files == UNION {[1..n -> RawLines] : n \in 0..MaxLines}

Start(p, w, f, svc) ==
    /\ pipeline = p
    /\ workers = w
    /\ file = f
    /\ service = svc
    /\ pc = "start"
    /\ client = FALSE
    /\ all_ids = <<>>
    /\ futures = <<>>
    /\ id_to_leaf = <<>>
    /\ errors = <<>>
    /\ completed = 0
    /\ leaf_list = <<>>
    /\ next_i = 0
    /\ requests = <<>>
    /\ leaf_data = <<>>
    /\ lines = <<>>
    /\ updated_ids = <<>>
    /\ counts = <<>>
    /\ output = <<>>
    /\ conversion = <<>>

Init ==
    \E p \in Pipelines, w \in WorkerCounts, f \in Files, svc \in Services :
        Start(p, w, f, svc)

\* A variant of main that creates the client before it looks at all_ids.
ReadIdsClientFirst ==
    /\ pc = "start"
    /\ LET ids == parse_id_file(pipeline, file)
       IN  /\ all_ids' = ids
           /\ client' = TRUE
           /\ IF ids = <<>>
              THEN /\ pc' = "exit1"
                   /\ UNCHANGED futures
              ELSE /\ pc' = "stageA"
                   /\ futures' = [i \in 1..Len(ids) |->
                                    [st |-> "pending", res |-> NoResult]]
    /\ UNCHANGED <<conversion, pipeline, workers, file, service, id_to_leaf, errors,
                   completed, leaf_list, next_i, requests, leaf_data, lines,
                   updated_ids, counts, output>>

\* main up to the as_completed loop: parse the file, exit(1) on no IDs,
\* create the client and submit one task per entry of all_ids.  (The client
\* constructor and get_datastack_info are taken to answer.)
ReadIds ==
    /\ pc = "start"
    /\ LET ids == parse_id_file(pipeline, file)
       IN  /\ all_ids' = ids
           /\ IF ids = <<>>
              THEN /\ pc' = "exit1"
                   /\ UNCHANGED <<client, futures>>
              ELSE /\ pc' = "stageA"
                   /\ client' = TRUE
                   /\ futures' = [i \in 1..Len(ids) |->
                                    [st |-> "pending", res |-> NoResult]]
    /\ UNCHANGED <<conversion, pipeline, workers, file, service, id_to_leaf, errors,
                   completed, leaf_list, next_i, requests, leaf_data, lines,
                   updated_ids, counts, output>>

Running == {i \in 1..Len(futures) : futures[i].st = "running"}

\* A variant of the pool that starts a thread for every queued task.
StartTaskUnbounded(i) ==
    /\ pc = "stageA"
    /\ futures[i].st = "pending"
    /\ \A j \in 1..(i - 1) : futures[j].st # "pending"
    /\ futures' = [futures EXCEPT ![i].st = "running"]
    /\ UNCHANGED <<conversion, pipeline, workers, file, service, pc, client, all_ids,
                   id_to_leaf, errors, completed, leaf_list, next_i, requests,
                   leaf_data, lines, updated_ids, counts, output>>

\* A variant of the pool that keeps one of its threads in reserve.
StartTaskReserve(i) ==
    /\ pc = "stageA"
    /\ futures[i].st = "pending"
    /\ \A j \in 1..(i - 1) : futures[j].st # "pending"
    /\ Cardinality(Running) + 1 < workers
    /\ futures' = [futures EXCEPT ![i].st = "running"]
    /\ UNCHANGED <<conversion, pipeline, workers, file, service, pc, client, all_ids,
                   id_to_leaf, errors, completed, leaf_list, next_i, requests,
                   leaf_data, lines, updated_ids, counts, output>>

\* A pool thread takes the oldest queued task and issues its remote call.
StartTask(i) ==
    /\ pc = "stageA"
    /\ futures[i].st = "pending"
    /\ \A j \in 1..(i - 1) : futures[j].st # "pending"
    /\ Cardinality(Running) < workers
    /\ futures' = [futures EXCEPT ![i].st = "running"]
    /\ UNCHANGED <<conversion, pipeline, workers, file, service, pc, client, all_ids,
                   id_to_leaf, errors, completed, leaf_list, next_i, requests,
                   leaf_data, lines, updated_ids, counts, output>>

\* A variant in which the worker function stores its result in the maps
\* itself before it returns.
FinishTaskStores(i) ==
    /\ pc = "stageA"
    /\ futures[i].st = "running"
    /\ \E resp \in LeafResponses(service, int(all_ids[i])) :
         LET r == get_one(pipeline, all_ids[i], resp)
         IN  /\ futures' = [futures EXCEPT ![i] = [st |-> "done", res |-> r]]
             /\ IF r.leaf # <<>>
                THEN /\ id_to_leaf' = Put(id_to_leaf, r.root_id, r.leaf[1])
                     /\ UNCHANGED errors
                ELSE /\ errors' = Put(errors, r.root_id, r.err[1])
                     /\ UNCHANGED id_to_leaf
    /\ UNCHANGED <<conversion, pipeline, workers, file, service, pc, client, all_ids,
                   completed, leaf_list, next_i, requests,
                   leaf_data, lines, updated_ids, counts, output>>

\* The remote call of task i answers and the worker function returns.
FinishTask(i) ==
    /\ pc = "stageA"
    /\ futures[i].st = "running"
    /\ \E resp \in LeafResponses(service, int(all_ids[i])) :
         futures' = [futures EXCEPT
                        ![i] = [st |-> "done",
                                res |-> get_one(pipeline, all_ids[i], resp)]]
    /\ UNCHANGED <<conversion, pipeline, workers, file, service, pc, client, all_ids,
                   id_to_leaf, errors, completed, leaf_list, next_i, requests,
                   leaf_data, lines, updated_ids, counts, output>>

\* A variant in which the worker does not catch the fault of its remote call:
\* future.result() raises it in main.
CollectUncaught(i) ==
    /\ pc = "stageA"
    /\ futures[i].st = "done"
    /\ LET r == futures[i].res
       IN  IF r.leaf # <<>>
           THEN /\ id_to_leaf' = Put(id_to_leaf, r.root_id, r.leaf[1])
                /\ pc' = pc
           ELSE /\ pc' = "crashed"
                /\ UNCHANGED id_to_leaf
    /\ completed' = completed + 1
    /\ futures' = [futures EXCEPT ![i] = [st |-> "yielded", res |-> NoResult]]
    /\ UNCHANGED <<conversion, pipeline, workers, file, service, client, all_ids, errors,
                   leaf_list, next_i, requests, leaf_data, lines, updated_ids,
                   counts, output>>

\* A variant of the loop that submits a failed task again instead of storing
\* its error.
CollectRetry(i) ==
    /\ pc = "stageA"
    /\ futures[i].st = "done"
    /\ LET r == futures[i].res
       IN  IF r.leaf # <<>>
           THEN /\ id_to_leaf' = Put(id_to_leaf, r.root_id, r.leaf[1])
                /\ completed' = completed + 1
                /\ futures' = [futures EXCEPT
                                 ![i] = [st |-> "yielded", res |-> NoResult]]
           ELSE /\ futures' = [futures EXCEPT
                                 ![i] = [st |-> "pending", res |-> NoResult]]
                /\ UNCHANGED <<id_to_leaf, completed>>
    /\ UNCHANGED <<conversion, pipeline, workers, file, service, pc, client, all_ids,
                   errors, leaf_list, next_i, requests, leaf_data, lines,
                   updated_ids, counts, output>>

\* One iteration of the as_completed loop: a completed future is yielded and
\* its result stored.
Collect(i) ==
    /\ pc = "stageA"
    /\ futures[i].st = "done"
    /\ LET r == futures[i].res
       IN  IF r.leaf # <<>>
           THEN /\ id_to_leaf' = Put(id_to_leaf, r.root_id, r.leaf[1])
                /\ UNCHANGED errors
           ELSE /\ errors' = Put(errors, r.root_id, r.err[1])
                /\ UNCHANGED id_to_leaf
    /\ completed' = completed + 1
    /\ futures' = [futures EXCEPT ![i] = [st |-> "yielded", res |-> NoResult]]
    /\ UNCHANGED <<conversion, pipeline, workers, file, service, pc, client, all_ids,
                   leaf_list, next_i, requests, leaf_data, lines, updated_ids,
                   counts, output>>

\* A variant that leaves the as_completed loop once every task has been
\* started.
EndStageAStarted ==
    /\ pc = "stageA"
    /\ \A i \in 1..Len(futures) : futures[i].st # "pending"
    /\ pc' = "stageB"
    /\ leaf_list' = Values(id_to_leaf)
    /\ next_i' = 0
    /\ leaf_data' = <<>>
    /\ UNCHANGED <<conversion, pipeline, workers, file, service, client, all_ids, futures,
                   id_to_leaf, errors, completed, requests, lines, updated_ids,
                   counts, output>>

\* The as_completed loop and the executor end; the leaf list is taken.
EndStageA ==
    /\ pc = "stageA"
    /\ \A i \in 1..Len(futures) : futures[i].st = "yielded"
    /\ pc' = "stageB"
    /\ leaf_list' = Values(id_to_leaf)
    /\ next_i' = 0
    /\ leaf_data' = <<>>
    /\ UNCHANGED <<conversion, pipeline, workers, file, service, client, all_ids, futures,
                   id_to_leaf, errors, completed, requests, lines, updated_ids,
                   counts, output>>

\* A variant whose slice stops one element short.
ChunkShort(i) ==
    SubSeq(leaf_list, i + 1, Min(i + chunk_size(pipeline) - 1, Len(leaf_list)))

\* chunk = all_l2_ids[i:i + chunk_size] / sv_list[i:i + chunk_size].
Chunk(i) == SubSeq(leaf_list, i + 1, Min(i + chunk_size(pipeline), Len(leaf_list)))

\* A variant of the coordinate batch loop without the try/except: a fault
\* ends the process.
FetchL2ChunkUncaught ==
    /\ pc = "stageB"
    /\ pipeline = "coords"
    /\ next_i < Len(leaf_list)
    /\ \E resp \in L2Responses(service, Chunk(next_i)) :
         /\ requests' = Append(requests, [chunk |-> Chunk(next_i), ok |-> resp.ok])
         /\ IF resp.ok
            THEN /\ leaf_data' = Update(leaf_data, resp.data)
                 /\ next_i' = next_i + chunk_size(pipeline)
                 /\ pc' = pc
            ELSE /\ pc' = "crashed"
                 /\ UNCHANGED <<leaf_data, next_i>>
    /\ UNCHANGED <<conversion, pipeline, workers, file, service, client, all_ids, futures,
                   id_to_leaf, errors, completed, leaf_list, lines, updated_ids,
                   counts, output>>

\* A variant of the root batch loop with the coordinate loop's try/except: a
\* fault is caught and the loop goes on.
FetchRootsChunkIsolated ==
    /\ pc = "stageB"
    /\ pipeline = "validate"
    /\ next_i < Len(leaf_list)
    /\ \E resp \in RootResponses(service, Chunk(next_i)) :
         /\ requests' = Append(requests, [chunk |-> Chunk(next_i), ok |-> resp.ok])
         /\ leaf_data' = IF resp.ok THEN PutZip(leaf_data, Chunk(next_i), resp.ids)
                         ELSE leaf_data
    /\ next_i' = next_i + chunk_size(pipeline)
    /\ UNCHANGED <<conversion, pipeline, workers, file, service, pc, client, all_ids,
                   futures, id_to_leaf, errors, completed, leaf_list, lines,
                   updated_ids, counts, output>>

\* One iteration of the batch loop of fast_get_coords.py: a fault is caught
\* and the loop goes on.
FetchL2Chunk ==
    /\ pc = "stageB"
    /\ pipeline = "coords"
    /\ next_i < Len(leaf_list)
    /\ \E resp \in L2Responses(service, Chunk(next_i)) :
         /\ requests' = Append(requests, [chunk |-> Chunk(next_i), ok |-> resp.ok])
         /\ leaf_data' = IF resp.ok THEN Update(leaf_data, resp.data)
                         ELSE leaf_data
    /\ next_i' = next_i + chunk_size(pipeline)
    /\ UNCHANGED <<conversion, pipeline, workers, file, service, pc, client, all_ids,
                   futures, id_to_leaf, errors, completed, leaf_list, lines,
                   updated_ids, counts, output>>

\* One iteration of the batch loop of fast_validate_ids.py: a fault is not
\* caught and ends the process.
FetchRootsChunk ==
    /\ pc = "stageB"
    /\ pipeline = "validate"
    /\ next_i < Len(leaf_list)
    /\ \E resp \in RootResponses(service, Chunk(next_i)) :
         /\ requests' = Append(requests, [chunk |-> Chunk(next_i), ok |-> resp.ok])
         /\ IF resp.ok
            THEN /\ leaf_data' = PutZip(leaf_data, Chunk(next_i), resp.ids)
                 /\ next_i' = next_i + chunk_size(pipeline)
                 /\ pc' = pc
            ELSE /\ pc' = "crashed"
                 /\ UNCHANGED <<leaf_data, next_i>>
    /\ UNCHANGED <<conversion, pipeline, workers, file, service, client, all_ids, futures,
                   id_to_leaf, errors, completed, leaf_list, lines, updated_ids,
                   counts, output>>

\* A variant of the output loop that walks the dict instead of all_ids.
coords_lines_by_dict ==
    [i \in 1..Len(id_to_leaf) |->
        coords_row(id_to_leaf[i][1], errors, id_to_leaf, leaf_data)]

coords_lines == [i \in 1..Len(all_ids) |->
                    coords_row(all_ids[i], errors, id_to_leaf, leaf_data)]

validate_entries == [i \in 1..Len(all_ids) |->
                        validate_entry(all_ids[i], errors, id_to_leaf, leaf_data)]

\* The output loop: one line per entry of all_ids, in order.
Assemble ==
    /\ pc = "stageB"
    /\ next_i >= Len(leaf_list)
    /\ pc' = "write"
    /\ IF pipeline = "coords"
       THEN /\ lines' = coords_lines
            /\ updated_ids' = <<>>
            /\ counts' = <<success_count(coords_lines), fail_count(coords_lines)>>
       ELSE /\ lines' = [i \in 1..Len(all_ids) |-> validate_entries[i].line]
            /\ updated_ids' = [i \in 1..Len(all_ids) |-> validate_entries[i].upd]
            /\ counts' = <<kind_count(validate_entries, "changed"),
                           kind_count(validate_entries, "ok"),
                           kind_count(validate_entries, "error")>>
    /\ UNCHANGED <<conversion, pipeline, workers, file, service, client, all_ids, futures,
                   id_to_leaf, errors, completed, leaf_list, next_i, requests,
                   leaf_data, output>>

\* The files are written: the report (its header numbers, then the lines)
\* and, for the validator, the clean-IDs file.
WriteOutput ==
    /\ pc = "write"
    /\ pc' = "done"
    /\ output' =
         IF pipeline = "coords"
         THEN <<[name |-> "report", head |-> <<>>, body |-> lines]>>
         ELSE <<[name |-> "report",
                 head |-> <<Len(all_ids)>> \o counts \o <<workers>>,
                 body |-> lines],
                [name |-> "clean", head |-> <<>>, body |-> updated_ids]>>
    /\ UNCHANGED <<conversion, pipeline, workers, file, service, client, all_ids, futures,
                   id_to_leaf, errors, completed, leaf_list, next_i, requests,
                   leaf_data, lines, updated_ids, counts>>

\* The parser specification: every file of at most MaxParseLines lines of at
\* most MaxLineLen characters, read by either script.
Chars == {"1", "2", Space, Hash, Arrow, "-", ">"}
ParseLines == UNION {[1..n -> Chars] : n \in 0..MaxLineLen}
ParseFiles == UNION {[1..n -> ParseLines] : n \in 0..MaxParseLines}

ParseInit ==
    \E p \in Pipelines, f \in ParseFiles :
        Start(p, DefaultWorkers, f, [det |-> FALSE, bad |-> {}, poison |-> {}])

ParseSpec == ParseInit /\ [][ReadIds]_vars

\* The conversion specification: lines 173-175 on their own, for coordinates
\* and resolutions as JSON integers.  A coordinate is an int of any size,
\* held by sign and magnitude.
Signed(n) == [neg |-> n < 0, mag |-> ToBits(IF n < 0 THEN 0 - n ELSE n)]
Negated(a) == [neg |-> a.mag # <<>>, mag |-> a.mag]
\* 2^(k-1) + 1, the least odd number of k binary digits.
OddOfBits(k) == [neg |-> FALSE, mag |-> <<1>> \o Zeros(k - 2) \o <<1>>]
RawValues ==
    {Signed(n) : n \in {0, 399, 400, 800, 1600, 0 - 399}}
        \cup {OddOfBits(MaxRawBits - 1), OddOfBits(MaxRawBits),
              Negated(OddOfBits(MaxRawBits))}
ResValues == {1, 4, 40}

ConvInit ==
    /\ pipeline = "coords"
    /\ workers = DefaultWorkers
    /\ file = <<>>
    /\ service = [det |-> FALSE, bad |-> {}, poison |-> {}]
    /\ pc = "convert"
    /\ client = TRUE
    /\ all_ids = <<>>
    /\ futures = <<>>
    /\ id_to_leaf = <<>>
    /\ errors = <<>>
    /\ completed = 0
    /\ leaf_list = <<>>
    /\ next_i = 0
    /\ requests = <<>>
    /\ leaf_data = <<>>
    /\ lines = <<>>
    /\ updated_ids = <<>>
    /\ counts = <<>>
    /\ output = <<>>
    /\ \E raw \in [1..3 -> RawValues], res \in [1..3 -> ResValues] :
         conversion = [rep_coord |-> raw, viewer_res |-> res, xyz |-> <<>>]

\* x, y, z = int(rep_coord[i] / viewer_res[i]).
Convert ==
    /\ pc = "convert"
    /\ pc' = "converted"
    /\ conversion' =
         [conversion EXCEPT
            !.xyz = [axis \in 1..3 |->
                        int_truediv(conversion.rep_coord[axis],
                                    conversion.viewer_res[axis])]]
    /\ UNCHANGED <<pipeline, workers, file, service, client, all_ids, futures,
                   id_to_leaf, errors, completed, leaf_list, next_i, requests,
                   leaf_data, lines, updated_ids, counts, output>>

ConvSpec == ConvInit /\ [][Convert]_vars

Next ==
    \/ ReadIds
    \/ \E i \in 1..Len(futures) : StartTask(i)
    \/ \E i \in 1..Len(futures) : FinishTask(i)
    \/ \E i \in 1..Len(futures) : Collect(i)
    \/ EndStageA
    \/ FetchL2Chunk
    \/ FetchRootsChunk
    \/ Assemble
    \/ WriteOutput

Spec == Init /\ [][Next]_vars

\* The steps of the main thread.
Coordinator ==
    \/ ReadIds
    \/ \E i \in 1..Len(futures) : Collect(i)
    \/ EndStageA
    \/ FetchL2Chunk
    \/ FetchRootsChunk
    \/ Assemble
    \/ WriteOutput

\* Fair scheduling: the main thread runs when it can, a pool thread that is
\* free takes a queued task, and every remote call of Stage A returns or
\* faults.  (A batch call of the main thread answers as part of its step.)
Fairness ==
    /\ WF_vars(Coordinator)
    /\ WF_vars(\E i \in 1..Len(futures) : StartTask(i))
    /\ \A i \in 1..MaxLines : WF_vars(i <= Len(futures) /\ FinishTask(i))

\* The fair specification runs both scripts, with one worker and with the
\* default, on a file of MaxLines lines that are all IDs, against the
\* service that may answer each call in any way.
FairLines == <<<<"1">>, <<"0", "2">>, <<"1", Arrow, "3">>>>
FairFile == [i \in 1..MaxLines |-> FairLines[((i - 1) % Len(FairLines)) + 1]]

FairInit ==
    \E p \in Pipelines, w \in WorkerCounts :
        Start(p, w, FairFile, [det |-> FALSE, bad |-> {}, poison |-> {}])

FairSpec == FairInit /\ [][Next]_vars /\ Fairness

\* ------------------------------------------------------------------ claims
AfterStageA == pc \in {"stageB", "write", "done", "crashed"}
Assembled == pc \in {"write", "done"}
HasDuplicate(s) == \E i, j \in 1..Len(s) : i # j /\ s[i] = s[j]

\* The documented grammar of one raw line (C10), on the trimmed line: blank
\* and #-lines give nothing; with a Unicode arrow, the text after the last
\* one if it is all digits; else with "->", the same; else the line itself
\* if it is all digits.
GrammarLine(raw) ==
    LET t == strip(raw)
        TakeAfter(sep) ==
            LET id == strip(split_last(t, sep))
            IN  IF isdigit(id) THEN <<id>> ELSE <<>>
    IN  IF t = <<>> THEN <<>>
        ELSE IF t[1] = Hash THEN <<>>
        ELSE IF contains(t, <<Arrow>>) THEN TakeAfter(<<Arrow>>)
        ELSE IF contains(t, <<"-", ">">>) THEN TakeAfter(<<"-", ">">>)
        ELSE IF isdigit(t) THEN <<t>>
        ELSE <<>>

RECURSIVE GrammarFile(_)
GrammarFile(f) ==
    IF f = <<>> THEN <<>> ELSE GrammarLine(Head(f)) \o GrammarFile(Tail(f))

\* C10: the parser of each pipeline maps every raw line to the ID the
\* documented grammar gives it (none for blank lines, #-lines and lines of
\* no grammar), keeping line order and duplicates.
C10_ParserFollowsGrammar == pc # "start" => all_ids = GrammarFile(file)

\* The data rows of the written report.
ReportBody == output[1].body

\* C1: in both pipelines the report of a run that reaches assembly has one
\* data row per recognized ID, and row i is the row of the i-th recognized
\* ID: nothing is dropped, duplicated or reordered.
C1_Completeness ==
    /\ Assembled =>
        /\ all_ids = parse_id_file(pipeline, file)
        /\ Len(lines) = Len(all_ids)
        /\ \A i \in 1..Len(all_ids) : lines[i].id = all_ids[i]
    /\ pc = "done" =>
        /\ output[1].name = "report"
        /\ Len(ReportBody) = Len(all_ids)
        /\ \A i \in 1..Len(all_ids) : ReportBody[i].id = all_ids[i]

\* A written coordinate report of a file with a dropped line and a repeated
\* ID, after a failed lookup and a faulted batch request.
C1_Witness ==
    /\ pc = "done"
    /\ pipeline = "coords"
    /\ Len(all_ids) < Len(file)
    /\ HasDuplicate(all_ids)
    /\ errors # <<>>
    /\ \E k \in 1..Len(requests) : ~requests[k].ok

\* C2: after Stage A the keys of idToLeaf and of errors together are exactly
\* the input IDs, and no ID is a key of both.
C2_Partition ==
    AfterStageA =>
        /\ Keys(id_to_leaf) \cup Keys(errors) = Range(all_ids)
        /\ Keys(id_to_leaf) \cap Keys(errors) = {}

\* The report row of a failed ID: the validator's carries the reason, the
\* coordinate report's the ERROR cells.
IsErrorRow(row, id) ==
    IF pipeline = "coords"
    THEN row = [id |-> id, cells |-> <<ERROR, ERROR, ERROR>>]
    ELSE row = [kind |-> "error", id |-> id, val |-> <<Get(errors, id)>>]

\* C4: a fault or an empty result of the Stage-A call of one ID is stored as
\* that ID's error and does not end the run: collecting it leaves the run in
\* Stage A, Stage B starts only with every ID looked up, the run ends early
\* only on a faulted root request, and the failed ID's row is its error row.
C4_LookupFailureIsData ==
    /\ [][\A i \in 1..Len(futures) :
            (futures[i].st = "done" /\ futures[i].res.leaf = <<>>
                /\ futures'[i].st = "yielded")
            => /\ pc' = "stageA"
               /\ Has(errors', all_ids[i])
               /\ Get(errors', all_ids[i]) = futures[i].res.err[1]]_vars
    /\ [](AfterStageA => \A i \in 1..Len(futures) : futures[i].st = "yielded")
    /\ [](pc = "crashed" =>
            /\ pipeline = "validate"
            /\ requests # <<>>
            /\ ~requests[Len(requests)].ok)
    /\ [](Assembled =>
            \A i \in 1..Len(all_ids) :
                Has(errors, all_ids[i]) => IsErrorRow(lines[i], all_ids[i]))

\* A written validator report with the row of an ID whose lookup faulted and
\* the row of another ID that was resolved in Stage B.
C4_Witness ==
    /\ pc = "done"
    /\ pipeline = "validate"
    /\ \E i, j \in 1..Len(all_ids) :
        /\ Has(errors, all_ids[i])
        /\ Get(errors, all_ids[i]) = FaultMsg
        /\ ReportBody[i].kind = "error"
        /\ ~Has(errors, all_ids[j])
        /\ ReportBody[j].kind # "error"

\* The requests that faulted, and whether every request that held leaf l did.
Faulted == {k \in 1..Len(requests) : ~requests[k].ok}
OnlyFaulted(l) ==
    \A k \in 1..Len(requests) : l \in Range(requests[k].chunk) => k \in Faulted

\* Every chunk of the leaf list has been requested.
AllChunksRequested ==
    /\ Len(requests) * chunk_size(pipeline) >= Len(leaf_list)
    /\ (Len(requests) - 1) * chunk_size(pipeline) < Len(leaf_list)
    /\ \A k \in 1..Len(requests) :
        requests[k].chunk = Chunk((k - 1) * chunk_size(pipeline))

NARow(id) == [id |-> id, cells |-> <<NA, NA, NA>>]
ERRORRow(id) == [id |-> id, cells |-> <<ERROR, ERROR, ERROR>>]

C6_RootFaultAborts ==
    pipeline = "validate" =>
        /\ \A k \in Faulted :
            /\ k = Len(requests)
            /\ pc = "crashed"
        /\ pc = "crashed" =>
            /\ Faulted # {}
            /\ lines = <<>>
            /\ updated_ids = <<>>
            /\ output = <<>>

\* A validator run ended by the fault of its first root request, with leaves
\* left that no request was sent for.
C6_Witness ==
    /\ pc = "crashed"
    /\ pipeline = "validate"
    /\ Faulted = {1}
    /\ Len(leaf_list) > chunk_size(pipeline)
    /\ output = <<>>

\* Whether the Stage-B map of the validator holds a root for the leaf of id.
HasRoot(id) == Has(id_to_leaf, id) /\ Has(leaf_data, Get(id_to_leaf, id))
RootOf(id) == Get(leaf_data, Get(id_to_leaf, id))

\* C7: in the validator's assembly an ID outside the error set whose leaf has
\* a current root is Unchanged exactly when the root, written in decimal, is
\* the ID's text, and Changed(root) otherwise.
C7_ValidatorClassification ==
    (pipeline = "validate" /\ Assembled) =>
        \A i \in 1..Len(all_ids) :
            (~Has(errors, all_ids[i]) /\ HasRoot(all_ids[i])) =>
                /\ lines[i].id = all_ids[i]
                /\ lines[i].kind \in {"ok", "changed"}
                /\ lines[i].kind = "ok" <=> str(RootOf(all_ids[i])) = all_ids[i]
                /\ lines[i].kind = "changed" => lines[i].val = str(RootOf(all_ids[i]))

\* A written validator report with an Unchanged row and a Changed row whose
\* new ID is the same number as the old one, written differently.
C7_Witness ==
    /\ pc = "done"
    /\ pipeline = "validate"
    /\ \E i, j \in 1..Len(all_ids) :
        /\ ReportBody[i].kind = "ok"
        /\ ReportBody[j].kind = "changed"
        /\ int(ReportBody[j].val) = int(all_ids[j])

\* C8: the clean-IDs list has one entry per recognized ID, in input order:
\* the new ID where the row is Changed, the input ID where the row is
\* Unchanged or Error; the clean file holds that list.
C8_CleanIds ==
    pipeline = "validate" =>
        /\ Assembled =>
            /\ Len(updated_ids) = Len(all_ids)
            /\ \A i \in 1..Len(all_ids) :
                updated_ids[i] = IF lines[i].kind = "changed"
                                 THEN str(RootOf(all_ids[i]))
                                 ELSE all_ids[i]
        /\ pc = "done" =>
            /\ output[2].name = "clean"
            /\ output[2].body = updated_ids
            /\ output[1].body = lines

\* A written clean file after a report with an Unchanged, an Error and a
\* Changed row.
C8_Witness ==
    /\ pc = "done"
    /\ pipeline = "validate"
    /\ \E i, j, k \in 1..Len(all_ids) :
        /\ ReportBody[i].kind = "ok"
        /\ ReportBody[j].kind = "error"
        /\ ReportBody[k].kind = "changed"
        /\ output[2].body[k] # all_ids[k]

\* a / b truncated toward zero, for b > 0, by its defining inequalities.
TowardZero(a, b) ==
    CHOOSE q \in {a \div b, (a \div b) + 1} :
        IF a >= 0 THEN q * b <= a /\ a < (q + 1) * b
        ELSE q * b >= a /\ a > (q - 1) * b

\* C9: each row of the coordinate report is decided in this order: ERROR if
\* the ID is in the error set (also when idToLeaf holds a leaf for it); else
\* N/A if its leaf is absent from the Stage-B map or present without
\* rep_coord_nm; else the coordinates computed from that attribute.
C9_CoordsRowOrder ==
    (pipeline = "coords" /\ Assembled) =>
        \A i \in 1..Len(all_ids) :
            LET id == all_ids[i]
                key == str(Get(id_to_leaf, id))
            IN  IF Has(errors, id) THEN lines[i] = ERRORRow(id)
                ELSE IF ~Has(id_to_leaf, id) THEN lines[i] = NARow(id)
                ELSE IF ~Has(leaf_data, key) THEN lines[i] = NARow(id)
                ELSE IF Get(leaf_data, key) = <<>> THEN lines[i] = NARow(id)
                ELSE LET raw == Get(leaf_data, key)[1]
                     IN  lines[i] =
                            [id |-> id,
                             cells |-> [c \in 1..3 |->
                                fmt(TowardZero(raw[c], viewer_res[c]))]]

\* A written coordinate report with the ERROR row of an ID that is in the
\* error set while idToLeaf holds a leaf for it whose coordinate was fetched,
\* and a coordinate row.
C9_Witness ==
    /\ pc = "done"
    /\ pipeline = "coords"
    /\ \E i, j \in 1..Len(all_ids) :
        /\ Has(errors, all_ids[i])
        /\ Has(id_to_leaf, all_ids[i])
        /\ Has(leaf_data, str(Get(id_to_leaf, all_ids[i])))
        /\ Get(leaf_data, str(Get(id_to_leaf, all_ids[i]))) # <<>>
        /\ ReportBody[i] = ERRORRow(all_ids[i])
        /\ IsCoords(ReportBody[j])

\* The run of a deterministic stub with one worker, each result collected as
\* it completes: the tasks run and are collected in input order.
TheLeafResponse(id) == CHOOSE resp \in LeafResponses(service, int(id)) : TRUE

RECURSIVE SeqStageA(_)
SeqStageA(k) ==
    IF k = 0 THEN [m |-> <<>>, e |-> <<>>]
    ELSE LET prev == SeqStageA(k - 1)
             r == get_one(pipeline, all_ids[k], TheLeafResponse(all_ids[k]))
         IN  IF r.leaf # <<>>
             THEN [m |-> Put(prev.m, r.root_id, r.leaf[1]), e |-> prev.e]
             ELSE [m |-> prev.m, e |-> Put(prev.e, r.root_id, r.err[1])]

SeqMaps == SeqStageA(Len(all_ids))
SeqLeafList == Values(SeqMaps.m)
SeqChunk(i) ==
    SubSeq(SeqLeafList, i + 1, Min(i + chunk_size(pipeline), Len(SeqLeafList)))

\* The Stage-B map after the batch loop from offset i on, and whether a root
\* request faults on the way.
RECURSIVE SeqStageB(_, _)
SeqStageB(i, data) ==
    IF i >= Len(SeqLeafList) THEN [data |-> data, crashed |-> FALSE]
    ELSE IF pipeline = "coords"
    THEN LET resp == CHOOSE r \in L2Responses(service, SeqChunk(i)) : TRUE
         IN  SeqStageB(i + chunk_size(pipeline),
                       IF resp.ok THEN Update(data, resp.data) ELSE data)
    ELSE LET resp == CHOOSE r \in RootResponses(service, SeqChunk(i)) : TRUE
         IN  IF resp.ok
             THEN SeqStageB(i + chunk_size(pipeline),
                            PutZip(data, SeqChunk(i), resp.ids))
             ELSE [data |-> data, crashed |-> TRUE]

SeqResult == SeqStageB(0, <<>>)
SeqLines ==
    [i \in 1..Len(all_ids) |->
        IF pipeline = "coords"
        THEN coords_row(all_ids[i], SeqMaps.e, SeqMaps.m, SeqResult.data)
        ELSE validate_entry(all_ids[i], SeqMaps.e, SeqMaps.m, SeqResult.data).line]

\* C3: with a deterministic stub, a run with 20 workers ends as the run with
\* 1 worker does: it writes a report if and only if that run does, with the
\* same data rows (the header, which holds the time and the worker count, is
\* not compared).
C3_WorkerCountInvariance ==
    (service.det /\ workers = DefaultWorkers /\ pc \in {"done", "crashed"}) =>
        IF SeqResult.crashed THEN pc = "crashed"
        ELSE pc = "done" /\ ReportBody = SeqLines

\* C11: a file with no recognized ID ends the run with exit status 1 before
\* the client is created, with no task submitted, no request sent and no
\* file written, and the run stays there; a file with a recognized ID never
\* takes that exit and has its client created.
C11_NoIdsExitsEarly ==
    pc # "start" =>
        IF parse_id_file(pipeline, file) = <<>>
        THEN /\ pc = "exit1"
             /\ all_ids = <<>>
             /\ ~client
             /\ futures = <<>>
             /\ requests = <<>>
             /\ output = <<>>
        ELSE /\ pc # "exit1"
             /\ client
             /\ Len(futures) = Len(all_ids)

\* The early exit on a file that has lines, none of them an ID.
C11_Witness ==
    /\ pc = "exit1"
    /\ Len(file) = MaxLines
    /\ ~client

\* The digits of bits * b + c below the carry out, and the carry out, for
\* small b and c: the carry goes from right to left (through the right half
\* of the digits, then the left half).
RECURSIVE MulAddDigits(_, _, _)
MulAddDigits(bits, b, c) ==
    The({IF Len(bv) = 0 THEN [d |-> <<>>, c |-> c]
         ELSE IF Len(bv) = 1
         THEN [d |-> <<(bv[1] * b + c) % 2>>, c |-> (bv[1] * b + c) \div 2]
         ELSE The({The({[d |-> hi.d \o lo.d, c |-> hi.c]
                        : hi \in {MulAddDigits(SubSeq(bv, 1, Len(bv) \div 2),
                                               b, lo.c)}})
                   : lo \in {MulAddDigits(SubSeq(bv, Len(bv) \div 2 + 1, Len(bv)),
                                          b, c)}})
         : bv \in {AsTuple(bits)}})

\* bits * b + c for small b and c.
MulAdd(bits, b, c) ==
    The({Normalize(ToBits(m.c) \o m.d) : m \in {MulAddDigits(bits, b, c)}})

\* q is a / b truncated toward zero, for b > 0: |a| = |q| * b + r with
\* 0 <= r < b, and q has the sign of a unless it is zero.
IsTowardZero(q, a, b) ==
    /\ \E r \in 0..(b - 1) : MulAdd(q.mag, b, r) = a.mag
    /\ q.neg = (a.neg /\ q.mag # <<>>)

\* C12: for every integer nanometre triple and every positive integer
\* resolution triple, each emitted component is the quotient of its
\* coordinate by its resolution truncated toward zero.
C12_TruncatesTowardZero ==
    pc = "converted" =>
        \A axis \in 1..3 :
            IsTowardZero(conversion.xyz[axis], conversion.rep_coord[axis],
                         conversion.viewer_res[axis])

\* C13: in every state in which a batch request has been sent or Stage B or
\* Stage C runs (or the run has ended after them), every Stage-A task has
\* returned and its result has been collected: no future is queued, running
\* or waiting to be yielded, the loop has counted one result per recognized
\* ID and every recognized ID is a key of idToLeaf or of errors.
C13_HardBarrier ==
    (requests # <<>> \/ AfterStageA \/ lines # <<>> \/ output # <<>>) =>
        /\ Len(futures) = Len(all_ids)
        /\ \A i \in 1..Len(futures) :
            /\ futures[i].st \notin {"pending", "running", "done"}
            /\ Has(id_to_leaf, all_ids[i]) \/ Has(errors, all_ids[i])
        /\ completed = Len(all_ids)

\* Stage B under way after a Stage A of several tasks run by several
\* workers: the first batch request has been sent, more are to come.
C13_Witness ==
    /\ pc = "stageB"
    /\ workers > 1
    /\ Len(futures) = MaxLines
    /\ Len(requests) = 1
    /\ next_i < Len(leaf_list)

\* C14: with a deterministic stub (a function of the arguments of each call,
\* the faults of batch requests included) the run ends the same way and with
\* the same report rows whatever the order in which the Stage-A futures
\* complete and are collected: as the run does that collects them in input
\* order.
C14_OrderIndependence ==
    (service.det /\ pc \in {"done", "crashed"}) =>
        /\ SeqResult.crashed <=> pc = "crashed"
        /\ pc = "done" => ReportBody = SeqLines

\* C15: each key of idToLeaf and of errors is written at most once during
\* Stage A.  Every collected result is one write to one of the two maps, so
\* no key has been written twice exactly when the maps together hold as many
\* keys as results have been collected.
C15_KeysWrittenOnce ==
    completed = Len(id_to_leaf) + Len(errors)

\* C16: the two maps change only in a step of the loop that consumes the
\* completed futures: a step that changes idToLeaf or errors is in Stage A,
\* takes exactly one completed future, changes no other future and stores
\* that future's returned value under its InputID in one of the two maps;
\* a step in which a worker starts or returns changes neither map, and what
\* a worker returns is its InputID with either a leaf or a reason.
C16_OnlyCoordinatorWrites ==
    /\ [][(id_to_leaf' # id_to_leaf \/ errors' # errors) =>
            /\ pc = "stageA"
            /\ \E i \in 1..Len(futures) :
                /\ futures[i].st = "done"
                /\ futures' = [futures EXCEPT
                                 ![i] = [st |-> "yielded", res |-> NoResult]]
                /\ IF futures[i].res.leaf # <<>>
                   THEN /\ id_to_leaf' = Put(id_to_leaf, all_ids[i],
                                             futures[i].res.leaf[1])
                        /\ errors' = errors
                   ELSE /\ errors' = Put(errors, all_ids[i],
                                         futures[i].res.err[1])
                        /\ id_to_leaf' = id_to_leaf]_vars
    /\ [](\A i \in 1..Len(futures) :
            futures[i].st = "done" =>
                /\ futures[i].res.root_id = all_ids[i]
                /\ (futures[i].res.leaf = <<>>) # (futures[i].res.err = <<>>))

\* Stage A with a result stored by the consuming loop while one worker has
\* returned and another is still in its remote call.
C16_Witness ==
    /\ pc = "stageA"
    /\ id_to_leaf # <<>>
    /\ \E i, j \in 1..Len(futures) :
        /\ futures[i].st = "done"
        /\ futures[j].st = "running"

\* The single-item remote calls in flight, and the tasks not yet started.
InFlight == {i \in 1..Len(futures) : futures[i].st = "running"}
Unstarted == {i \in 1..Len(futures) : futures[i].st = "pending"}

\* C17: during Stage A at most W single-item remote calls are in flight, W
\* the configured worker count, and whenever fewer than W are in flight and
\* a task is unstarted, a task can start.
C17_AtMostWInFlight ==
    pc = "stageA" =>
        /\ Cardinality(InFlight) <= workers
        /\ (Cardinality(InFlight) < workers /\ Unstarted # {})
            => ENABLED (\E i \in 1..Len(futures) : StartTask(i))

\* A pool of one worker with its one call in flight and a task waiting
\* behind it.
C17_Witness ==
    /\ pc = "stageA"
    /\ Cardinality(InFlight) = workers
    /\ Unstarted # {}

\* How far a task has come: queued, in its remote call, returned, collected.
Progress(st) ==
    CASE st = "pending" -> 0
      [] st = "running" -> 1
      [] st = "done" -> 2
      [] st = "yielded" -> 3

\* C18: Stage A has one task per entry of the input sequence and each task
\* makes its remote call once: a task only moves forward (queued, calling,
\* returned, collected), one stage per step, so no task enters its call a
\* second time, and past Stage A every task has been through its call.  A
\* failed call is final: its ID stays in the error set and its row is the
\* error row.
C18_OneCallNoRetry ==
    /\ [](pc \notin {"start", "exit1"} => Len(futures) = Len(all_ids))
    /\ [][\A i \in 1..Len(futures) :
            /\ Len(futures') = Len(futures)
            /\ Progress(futures'[i].st) - Progress(futures[i].st) \in {0, 1}]_vars
    /\ [](AfterStageA =>
            \A i \in 1..Len(futures) : Progress(futures[i].st) = 3)
    /\ [][\A i \in 1..Len(futures) :
            (futures[i].st = "done" /\ futures[i].res.leaf = <<>>
                /\ futures'[i].st # "done")
            => Has(errors', all_ids[i])]_vars
    /\ [][\A id \in Keys(errors) : Has(errors', id)]_vars
    /\ [](Assembled =>
            \A i \in 1..Len(all_ids) :
                Has(errors, all_ids[i]) =>
                    IF pipeline = "coords"
                    THEN lines[i] = ERRORRow(all_ids[i])
                    ELSE lines[i].kind = "error")

\* A written coordinate report after a Stage A in which one call faulted
\* and another returned no leaf: both IDs have their ERROR row.
C18_Witness ==
    /\ pc = "done"
    /\ pipeline = "coords"
    /\ \E i, j \in 1..Len(all_ids) :
        /\ Has(errors, all_ids[i])
        /\ Get(errors, all_ids[i]) = FaultMsg
        /\ Has(errors, all_ids[j])
        /\ Get(errors, all_ids[j]) = NoLeafMsg(pipeline)
        /\ ReportBody[i] = ERRORRow(all_ids[i])
        /\ ReportBody[j] = ERRORRow(all_ids[j])

\* The chunks of the first k batch requests, one after the other.
RECURSIVE SentLeaves(_)
SentLeaves(k) ==
    IF k = 0 THEN <<>> ELSE SentLeaves(k - 1) \o requests[k].chunk

\* C19: the batch requests cut the leaf list into contiguous slices, in
\* order: the chunks sent so far, one after the other, are the leaf list up
\* to where the loop has come, and the whole list once the loop has ended;
\* the list is the values of idToLeaf; every chunk has at least one and at
\* most chunk_size leaves and every chunk but the last of the list is full;
\* every leaf sent is the leaf stored in idToLeaf for a recognized ID, i.e.
\* the result of a Stage-A call that succeeded.
C19_ChunksPartition ==
    AfterStageA =>
        LET size == chunk_size(pipeline)
            n == Len(requests)
        IN  /\ leaf_list = Values(id_to_leaf)
            /\ SentLeaves(n) = SubSeq(leaf_list, 1, Min(n * size, Len(leaf_list)))
            /\ Assembled => SentLeaves(n) = leaf_list
            /\ \A k \in 1..n :
                /\ Len(requests[k].chunk) \in 1..size
                /\ k * size < Len(leaf_list) => Len(requests[k].chunk) = size
                /\ \A j \in 1..Len(requests[k].chunk) :
                    \E i \in 1..Len(all_ids) :
                        /\ Has(id_to_leaf, all_ids[i])
                        /\ Get(id_to_leaf, all_ids[i]) = requests[k].chunk[j]

\* A written validator report after two root requests, the first full and
\* the second with the one leaf left over.
C19_Witness ==
    /\ pc = "done"
    /\ pipeline = "validate"
    /\ Len(requests) = 2
    /\ Len(requests[1].chunk) = chunk_size(pipeline)
    /\ Len(requests[2].chunk) < chunk_size(pipeline)

\* C20: under fair scheduling, with every remote call returning or
\* faulting, a run with a recognized ID finishes: the coordinate pipeline
\* comes to write its report; the validator comes to write its report or is
\* ended by a faulted root request; and while the run is under way some
\* step is always possible (the main thread and the pool never wait for
\* each other).
C20_Terminates ==
    /\ (pc = "stageA" /\ pipeline = "coords")
            ~> (pc = "done" /\ output # <<>>)
    /\ (pc = "stageA" /\ pipeline = "validate")
            ~> \/ pc = "done" /\ output # <<>>
               \/ pc = "crashed" /\ Faulted # {}
    /\ [](pc \in {"stageA", "stageB", "write"} => ENABLED <<Next>>_vars)

\* The written report of a run whose pool of one worker ran the lookups of
\* MaxLines IDs one after the other.
C20_Witness ==
    /\ pc = "done"
    /\ workers = 1
    /\ Len(futures) = MaxLines
    /\ completed = MaxLines
    /\ output # <<>>

====
